---- MODULE Spec2Model ----
(***************************************************************************)
(* Model of the reconciliation engine of jenkins-job-builder              *)
(* (src/jenkins_jobs/builder.py): the fingerprint cache (CacheStorage),   *)
(* the memoizing facade over the remote server (Jenkins) and the          *)
(* reconciler (Builder).                                                   *)
(***************************************************************************)
EXTENDS Integers, Sequences, FiniteSets, TLC

VARIABLES
    data,          \* CacheStorage.data: dict name -> md5 (a function on its keys)
    data_attr,     \* what the attribute data of the CacheStorage is: "unset", "None" or "dict"
    cachefile,     \* the file at CacheStorage.cachefilename
    srv_jobs,      \* the remote server's jobs: name -> XML document or Absent
    srv_views,     \* the remote server's views: name -> XML document or Absent
    jobs,          \* Jenkins._jobs (and _job_list): <<>> for None, or <<the memoized names>>
    views,         \* Jenkins._views (and _view_list): <<>> for None, or <<the memoized names>>
    plugins_list,  \* Builder._plugins_list: None, "given" or "fetched"
    ignore_cache,  \* Builder.ignore_cache
    last           \* what the last operation was given, did and returned

vars == <<data, data_attr, cachefile, srv_jobs, srv_views, jobs, views, plugins_list,
          ignore_cache, last>>

\* ------------------------------------------------------------ domains

None == "None"
\* A listing that was not fetched (self._jobs is None).
NoListing == <<>>
\* What the server holds under a name it has no entity for.
Absent == <<"absent", 0>>

\* Entity names, with the order Python gives the strings.
Names == {"a", "b"}
NameOrd(n) == IF n = "a" THEN 1 ELSE 2

\* How many versions of a generated job the model tells apart.
NumVersions == 1

\* XML documents. <<"job", i>> is version i of a generated job and
\* <<"view", 1>> a generated view (the compiler appends the marker to the
\* description); <<"hand", 0>> is a job somebody made or changed by hand on
\* the server.
GenJobDocs == {<<"job", i>> : i \in 1..NumVersions}
GenViewDocs == {<<"view", 1>>}
HandDoc == <<"hand", 0>>
SrvJobDocs == GenJobDocs \cup {HandDoc}
SrvViewDocs == GenViewDocs

\* The names the session's views take; "a" is a job and a view, "b" a job only.
ViewNames == {"a"}

\* The description text of a document, as a sequence of tokens; "M" stands
\* for MAGIC_MANAGE_STRING.
MAGIC_MANAGE_STRING == <<"M">>

\* The longest description text the model tells apart, and the texts.
MaxDescLen == 3
Texts == UNION {[1..n -> {"t", "M"}] : n \in 1..MaxDescLen}

\* What else get_job_config can return: <<"desc", text>> is a document
\* whose first description element holds the text; the others are a document
\* without a description element, one whose description element is empty
\* (its text is None) and one that is not well-formed XML.
DescDocs == {<<"desc", t>> : t \in Texts}
NoDescDoc == <<"nodesc", 0>>
NoTextDoc == <<"notext", 0>>
MalformedDoc == <<"malformed", 0>>
LiveDocs == SrvJobDocs \cup DescDocs \cup {NoDescDoc, NoTextDoc, MalformedDoc}

\* XML.fromstring(xml) returns; out.find(".//description") is an element;
\* its text is a string.
WellFormed(doc) == doc # MalformedDoc
HasDescription(doc) == doc # NoDescDoc
HasText(doc) == doc # NoTextDoc

Description(doc) ==
    IF doc = HandDoc THEN <<"M", "t">>
    ELSE IF doc[1] = "desc" THEN doc[2]
    ELSE <<"t">> \o MAGIC_MANAGE_STRING

\* hashlib.md5(xml).hexdigest(): one digest per document. A hash is a
\* sequence, so that <<>> is the empty string ''; a digest is never empty.
md5(doc) == <<"md5">> \o doc

Digests == {md5(d) : d \in SrvJobDocs \cup SrvViewDocs}
\* What a cache record can hold: a digest, or '' after a delete.
Hashes == Digests \cup {<<>>}

\* ------------------------------------------------------------ CacheStorage

EmptyDict == [x \in {} |-> <<>>]

\* set as a slip would have it: the dict is replaced, not updated.
set_replacing(d, job, h) == [x \in {job} |-> h]

\* self.data[job] = md5
set(d, job, h) == [x \in (DOMAIN d) \cup {job} |-> IF x = job THEN h ELSE d[x]]

is_cached(d, job) == job \in DOMAIN d

\* has_changed as a slip would have it: a missing record counts as unchanged.
has_changed_known_only(d, job, h) == job \in DOMAIN d /\ d[job] # h

has_changed(d, job, h) ==
    IF job \in DOMAIN d /\ d[job] = h THEN FALSE ELSE TRUE

\* Every dict over the names.
Dicts == UNION {[S -> Hashes] : S \in SUBSET Names}

\* ------------------------------------------------------------ sorting

\* list.sort(key=operator.attrgetter('name')): insertion of each item in
\* turn behind the items whose name is not greater (a stable sort).
RECURSIVE InsertByName(_, _)
InsertByName(item, seq) ==
    IF seq = <<>> THEN <<item>>
    ELSE IF NameOrd(item.name) < NameOrd(Head(seq).name)
         THEN <<item>> \o seq
         ELSE <<Head(seq)>> \o InsertByName(item, Tail(seq))

RECURSIVE SortByName(_)
SortByName(seq) ==
    IF seq = <<>> THEN <<>>
    ELSE InsertByName(seq[Len(seq)], SortByName(SubSeq(seq, 1, Len(seq) - 1)))

\* ------------------------------------------------------------ the session

\* The state an operation works on: the variables, plus what the operation
\* has done so far (remote calls issued, items written to the sink, an
\* exception on its way to the caller, the counters of update_job), and
\* which of its create and reconfigure calls the server or the network
\* fails (ufail; 0: none).
Session ==
    [data |-> data,
     srv |-> [job |-> srv_jobs, view |-> srv_views],
     memo |-> [job |-> jobs, view |-> views],
     plugins_list |-> plugins_list,
     calls |-> <<>>,
     written |-> <<>>,
     raised |-> FALSE,
     stopped |-> FALSE,
     updated |-> [job |-> 0, view |-> 0],
     deleted |-> 0,
     ufail |-> 0]

\* One call of the python-jenkins client, as the server sees it.
Call(st, c, n) == [st EXCEPT !.calls = Append(@, [call |-> c, name |-> n])]
Raise(st) == [st EXCEPT !.raised = TRUE]

CallName(k, what) ==
    CASE what = "list" -> IF k = "job" THEN "get_jobs" ELSE "get_views"
      [] what = "exists" -> IF k = "job" THEN "job_exists" ELSE "view_exists"
      [] what = "config" -> IF k = "job" THEN "get_job_config" ELSE "get_view_config"
      [] what = "reconfig" -> IF k = "job" THEN "reconfig_job" ELSE "reconfig_view"
      [] what = "create" -> IF k = "job" THEN "create_job" ELSE "create_view"
      [] OTHER -> IF k = "job" THEN "delete_job" ELSE "delete_view"

\* The names the server holds of one kind.
SrvNames(st, k) == {n \in Names : st.srv[k][n] # Absent}

\* ------------------------------------------------------------ Jenkins

\* The properties as a slip would have them: the listing is fetched at
\* every access.
listing_refetched(st, k) ==
    [Call(st, CallName(k, "list"), "") EXCEPT !.memo[k] = <<SrvNames(st, k)>>]

\* The properties jobs / job_list (views / view_list): fetch the listing
\* when nothing is memoized, and keep it.
listing(st, k) ==
    IF st.memo[k] = NoListing
    THEN [Call(st, CallName(k, "list"), "") EXCEPT !.memo[k] = <<SrvNames(st, k)>>]
    ELSE st

\* get_jobs(cache) / get_views(cache)
get_listing(st, k, cache) ==
    IF ~cache THEN listing([st EXCEPT !.memo[k] = NoListing], k) ELSE listing(st, k)

\* is_job / is_view: the memoized listing first, the server otherwise.
exists(st, k, name) ==
    LET s1 == listing(st, k)
    IN  IF name \in s1.memo[k][1]
        THEN [st |-> s1, res |-> TRUE]
        ELSE [st |-> Call(s1, CallName(k, "exists"), name),
              res |-> s1.srv[k][name] # Absent]

is_job(st, name) == exists(st, "job", name)
is_view(st, name) == exists(st, "view", name)

\* The server's side of the mutations: reconfiguring or deleting what it
\* does not hold, or creating what it holds, fails, and python-jenkins
\* raises.
\* The create or reconfigure call issued last is the one that fails.
Fails(st) ==
    /\ st.ufail > 0
    /\ st.ufail = Cardinality({i \in 1..Len(st.calls) :
                      st.calls[i].call \in {"create_job", "reconfig_job",
                                            "create_view", "reconfig_view"}})

srv_reconfig(st, k, name, doc) ==
    LET s == Call(st, CallName(k, "reconfig"), name)
    IN  IF s.srv[k][name] = Absent \/ Fails(s) THEN Raise(s)
        ELSE [s EXCEPT !.srv[k][name] = doc]

srv_create(st, k, name, doc) ==
    LET s == Call(st, CallName(k, "create"), name)
    IN  IF s.srv[k][name] # Absent \/ Fails(s) THEN Raise(s)
        ELSE [s EXCEPT !.srv[k][name] = doc]

srv_delete(st, k, name) ==
    LET s == Call(st, CallName(k, "delete"), name)
    IN  IF s.srv[k][name] = Absent THEN Raise(s)
        ELSE [s EXCEPT !.srv[k][name] = Absent]

\* get_job_config / get_view_config: the live XML, or an exception when the
\* server holds no such entity.
srv_config(st, k, name) ==
    LET s == Call(st, CallName(k, "config"), name)
    IN  IF s.srv[k][name] = Absent
        THEN [st |-> Raise(s), res |-> Absent]
        ELSE [st |-> s, res |-> s.srv[k][name]]

\* update_job as a slip would have it: the job is created, whether it
\* exists or not.
jenkins_update_creating(st, k, name, doc) ==
    srv_create(exists(st, k, name).st, k, name, doc)

\* Jenkins.update_job / Jenkins.update_view
jenkins_update(st, k, name, doc) ==
    LET r == exists(st, k, name)
    IN  IF r.res THEN srv_reconfig(r.st, k, name, doc)
        ELSE srv_create(r.st, k, name, doc)

\* Jenkins.get_job_md5 / Jenkins.get_view_md5
get_md5(st, k, name) ==
    LET c == srv_config(st, k, name)
    IN  IF c.st.raised THEN c ELSE [st |-> c.st, res |-> md5(c.res)]

\* delete_job as a slip would have it: the delete is issued without the
\* existence check.
jenkins_delete_unchecked(st, k, name) == srv_delete(st, k, name)

\* Jenkins.delete_job / Jenkins.delete_view
jenkins_delete(st, k, name) ==
    LET r == exists(st, k, name)
    IN  IF r.res THEN srv_delete(r.st, k, name) ELSE r.st

\* endswith as a slip would have it: the marker is looked for anywhere in the
\* text.
Contains(text, suffix) ==
    \E i \in 1..Len(text) :
        /\ i + Len(suffix) - 1 <= Len(text)
        /\ SubSeq(text, i, i + Len(suffix) - 1) = suffix

\* str.endswith
EndsWith(text, suffix) ==
    /\ Len(suffix) <= Len(text)
    /\ SubSeq(text, Len(text) - Len(suffix) + 1, Len(text)) = suffix

\* Jenkins.is_managed: the AttributeError of a missing description element
\* or of a description without text is caught and the answer is False; what
\* XML.fromstring raises on a document it cannot parse is neither a TypeError
\* nor an AttributeError, and goes to the caller.
is_managed(st, name) ==
    LET c == srv_config(st, "job", name)
    IN  IF c.st.raised THEN [st |-> c.st, res |-> FALSE]
        ELSE IF ~WellFormed(c.res) THEN [st |-> Raise(c.st), res |-> FALSE]
        ELSE IF ~HasDescription(c.res) \/ ~HasText(c.res) THEN [st |-> c.st, res |-> FALSE]
        ELSE [st |-> c.st, res |-> EndsWith(Description(c.res), MAGIC_MANAGE_STRING)]

\* ------------------------------------------------------------ Builder

\* The plugins_list property, read by load_files: the plugin info is fetched
\* from the server the first time, unless the constructor was given one.
load_files(st) ==
    IF st.plugins_list = None
    THEN [Call(st, "get_plugins_info", "") EXCEPT !.plugins_list = "fetched"]
    ELSE st

\* write_xml: the result is TRUE when the caller has to stop. wfail names
\* the write that fails (0: none does) and its errno.
write_xml(st, item, output, kind, wfail) ==
    LET failing == wfail.at = Len(st.written) + 1
        done == [st EXCEPT !.written = Append(@, [kind |-> kind, name |-> item.name])]
    IN  IF output = "stream"
        THEN IF failing
             THEN IF wfail.errno = "EPIPE"
                  THEN [st |-> st, res |-> TRUE]
                  ELSE [st |-> Raise(st), res |-> FALSE]
             ELSE [st |-> done, res |-> FALSE]
        ELSE IF failing
             THEN [st |-> Raise(st), res |-> FALSE]
             ELSE [st |-> done, res |-> FALSE]

\* The loop body as a slip would have it: the new hash is recorded whether
\* the create or reconfigure call returned or raised.
reconcile_recording_failures(st, k, item, ic) ==
    LET h == md5(item.doc)
        r == exists(st, k, item.name)
        s1 == IF r.res /\ ~is_cached(r.st.data, item.name)
              THEN LET m == get_md5(r.st, k, item.name)
                   IN  IF m.st.raised THEN m.st
                       ELSE [m.st EXCEPT !.data = set(@, item.name, m.res)]
              ELSE r.st
    IN  IF s1.raised THEN s1
        ELSE IF has_changed(s1.data, item.name, h) \/ ic
             THEN LET s2 == jenkins_update(s1, k, item.name, item.doc)
                  IN  [s2 EXCEPT !.updated[k] = @ + 1,
                                 !.data = set(@, item.name, h)]
             ELSE s1

\* The loop body as a slip would have it: ignore_cache is not looked at.
reconcile_unforced(st, k, item, ic) ==
    LET h == md5(item.doc)
        r == exists(st, k, item.name)
        s1 == IF r.res /\ ~is_cached(r.st.data, item.name)
              THEN LET m == get_md5(r.st, k, item.name)
                   IN  IF m.st.raised THEN m.st
                       ELSE [m.st EXCEPT !.data = set(@, item.name, m.res)]
              ELSE r.st
    IN  IF s1.raised THEN s1
        ELSE IF has_changed(s1.data, item.name, h)
             THEN LET s2 == jenkins_update(s1, k, item.name, item.doc)
                  IN  IF s2.raised THEN s2
                      ELSE [s2 EXCEPT !.updated[k] = @ + 1,
                                      !.data = set(@, item.name, h)]
             ELSE s1

\* The loop body as a slip would have it: the cache is not seeded from the
\* server.
reconcile_unseeded(st, k, item, ic) ==
    LET h == md5(item.doc)
        s1 == exists(st, k, item.name).st
    IN  IF has_changed(s1.data, item.name, h) \/ ic
        THEN LET s2 == jenkins_update(s1, k, item.name, item.doc)
             IN  IF s2.raised THEN s2
                 ELSE [s2 EXCEPT !.updated[k] = @ + 1,
                                 !.data = set(@, item.name, h)]
        ELSE s1

\* The body of update_job's loops without an output: seed the cache from the
\* server when the entity is there and has no record, then create or
\* reconfigure it when its hash has changed or the cache is ignored.
reconcile(st, k, item, ic) ==
    LET h == md5(item.doc)
        r == exists(st, k, item.name)
        s1 == IF r.res /\ ~is_cached(r.st.data, item.name)
              THEN LET m == get_md5(r.st, k, item.name)
                   IN  IF m.st.raised THEN m.st
                       ELSE [m.st EXCEPT !.data = set(@, item.name, m.res)]
              ELSE r.st
    IN  IF s1.raised THEN s1
        ELSE IF has_changed(s1.data, item.name, h) \/ ic
             THEN LET s2 == jenkins_update(s1, k, item.name, item.doc)
                  IN  IF s2.raised THEN s2
                      ELSE [s2 EXCEPT !.updated[k] = @ + 1,
                                      !.data = set(@, item.name, h)]
             ELSE s1

\* The loop body as a slip would have it: no continue after the write.
update_item_falls_through(st, k, item, output, wfail, ic) ==
    IF output # None
    THEN LET w == write_xml(st, item, output, k, wfail)
         IN  IF w.res THEN [w.st EXCEPT !.stopped = TRUE]
             ELSE IF w.st.raised THEN w.st ELSE reconcile(w.st, k, item, ic)
    ELSE reconcile(st, k, item, ic)

\* The loop body as a slip would have it: the result of write_xml is dropped.
update_item_ignores_stop(st, k, item, output, wfail, ic) ==
    IF output # None
    THEN write_xml(st, item, output, k, wfail).st
    ELSE reconcile(st, k, item, ic)

\* One pass of update_job's loop body over one item.
update_item(st, k, item, output, wfail, ic) ==
    IF output # None
    THEN LET w == write_xml(st, item, output, k, wfail)
         IN  IF w.res THEN [w.st EXCEPT !.stopped = TRUE] ELSE w.st
    ELSE reconcile(st, k, item, ic)

\* A for loop of update_job, left by the return after a broken pipe or by an
\* exception.
RECURSIVE update_loop(_, _, _, _, _, _)
update_loop(st, k, items, output, wfail, ic) ==
    IF items = <<>> \/ st.raised \/ st.stopped THEN st
    ELSE update_loop(update_item(st, k, Head(items), output, wfail, ic),
                     k, Tail(items), output, wfail, ic)

\* update_job as a slip would have it: the two sorts are missing.
update_job_unsorted(st, xml_jobs, xml_views, output, wfail, ic) ==
    LET s0 == load_files(st)
        sj == update_loop(s0, "job", xml_jobs, output, wfail, ic)
    IN  update_loop(sj, "view", xml_views, output, wfail, ic)

\* update_job as a slip would have it: the loop over the views is missing.
update_job_jobs_only(st, xml_jobs, xml_views, output, wfail, ic) ==
    update_loop(load_files(st), "job", SortByName(xml_jobs), output, wfail, ic)

\* Builder.update_job, on what the parser generated (xml_jobs, xml_views).
update_job(st, xml_jobs, xml_views, output, wfail, ic) ==
    LET s0 == load_files(st)
        sj == update_loop(s0, "job", SortByName(xml_jobs), output, wfail, ic)
    IN  update_loop(sj, "view", SortByName(xml_views), output, wfail, ic)

\* The delete as a slip would have it: the record is left as it is.
delete_entity_keeps_record(st, k, name) == jenkins_delete(st, k, name)

\* Builder.delete_job / Builder.delete_view of one name (fn is None).
delete_entity(st, k, name) ==
    LET s == jenkins_delete(st, k, name)
    IN  IF s.raised THEN s
        ELSE IF is_cached(s.data, name)
             THEN [s EXCEPT !.data = set(@, name, <<>>)]
             ELSE s

delete_job(st, name) == delete_entity(st, "job", name)
delete_view(st, name) == delete_entity(st, "view", name)

\* The names of a listing, in the order the loops take them.
RECURSIVE InOrder(_)
InOrder(S) ==
    IF S = {} THEN <<>>
    ELSE LET n == CHOOSE x \in S : \A y \in S : NameOrd(x) <= NameOrd(y)
         IN  <<n>> \o InOrder(S \ {n})

\* The loop of delete_old_managed.
RECURSIVE delete_old_loop(_, _, _)
delete_old_loop(st, names, keep) ==
    IF names = <<>> \/ st.raised THEN st
    ELSE LET n == Head(names)
             m == IF n \in keep THEN [st |-> st, res |-> FALSE]
                  ELSE is_managed(st, n)
             s == IF m.st.raised THEN m.st
                  ELSE IF m.res
                       THEN LET d == delete_job(m.st, n)
                            IN  IF d.raised THEN d
                                ELSE [d EXCEPT !.deleted = @ + 1]
                       ELSE m.st
         IN  delete_old_loop(s, Tail(names), keep)

\* Builder.delete_old_managed(keep)
delete_old_managed(st, keep) ==
    LET s == get_listing(st, "job", TRUE)
    IN  delete_old_loop(s, InOrder(s.memo["job"][1]), keep)

\* The loops of delete_all_jobs and delete_all_views.
RECURSIVE delete_all_loop(_, _, _)
delete_all_loop(st, k, names) ==
    IF names = <<>> \/ st.raised THEN st
    ELSE delete_all_loop(delete_entity(st, k, Head(names)), k, Tail(names))

\* Builder.delete_all_jobs / Builder.delete_all_views
delete_all(st, k) ==
    LET s == get_listing(st, k, TRUE)
    IN  delete_all_loop(s, k, InOrder(s.memo[k][1]))

\* ------------------------------------------------------------ the cache file

\* The file at self.cachefilename: whether it is there, and its text as a
\* sequence of lines. A line of a dumped dict is <<name, md5>>; yaml writes
\* the empty dict as the line {}.
NoFile == [exists |-> FALSE, text |-> <<>>]
FileOf(text) == [exists |-> TRUE, text |-> text]
EmptyMapLine == <<"{}", <<>>>>
\* A line that is no YAML.
CorruptLine == <<"?", <<>>>>

\* yaml.dump as a slip would have it: nothing is written for the empty dict.
yaml_dump_blank(d) ==
    [i \in 1..Cardinality(DOMAIN d) |-> <<InOrder(DOMAIN d)[i], d[InOrder(DOMAIN d)[i]]>>]

\* yaml.dump(self.data, yfile): one line per key, the keys in order.
yaml_dump(d) ==
    IF DOMAIN d = {} THEN <<EmptyMapLine>>
    ELSE [i \in 1..Cardinality(DOMAIN d) |-> <<InOrder(DOMAIN d)[i], d[InOrder(DOMAIN d)[i]]>>]

\* yaml.load(yfile): None for a text without a document, the dict for the
\* lines of a dict (the last line of a key wins), an exception otherwise.
yaml_load(text) ==
    IF text = <<>>
    THEN [raised |-> FALSE, none |-> TRUE, map |-> EmptyDict]
    ELSE IF text = <<EmptyMapLine>>
    THEN [raised |-> FALSE, none |-> FALSE, map |-> EmptyDict]
    ELSE IF \A i \in 1..Len(text) : text[i][1] \in Names
    THEN [raised |-> FALSE, none |-> FALSE,
          map |-> [n \in {text[i][1] : i \in 1..Len(text)} |->
                      text[CHOOSE i \in 1..Len(text) :
                              /\ text[i][1] = n
                              /\ \A j \in 1..Len(text) : text[j][1] = n => j <= i][2]]]
    ELSE [raised |-> TRUE, none |-> FALSE, map |-> EmptyDict]

\* The files a session can find: none, a dumped dict, a file some writer left
\* empty, a file that is no YAML.
Files == {NoFile} \cup {FileOf(yaml_dump(d)) : d \in Dicts}
         \cup {FileOf(<<>>), FileOf(<<CorruptLine>>)}

\* CacheStorage.__init__(jenkins_url, flush): what the instance holds as
\* data ("unset": no attribute, the constructor raised before the
\* assignment; "None"; "dict"), and whether the constructor raised. home
\* tells whether get_cache_dir finds the home folder.
open(file, flush, home) ==
    IF ~home
    THEN [data |-> EmptyDict, attr |-> "unset", raised |-> TRUE]
    ELSE IF flush \/ ~file.exists
    THEN [data |-> EmptyDict, attr |-> "dict", raised |-> FALSE]
    ELSE LET r == yaml_load(file.text)
         IN  IF r.raised THEN [data |-> EmptyDict, attr |-> "unset", raised |-> TRUE]
             ELSE IF r.none THEN [data |-> EmptyDict, attr |-> "None", raised |-> FALSE]
             ELSE [data |-> r.map, attr |-> "dict", raised |-> FALSE]

\* What can go wrong in save: nothing, open(..., 'w') fails, or the dump
\* fails after the file was opened (and truncated).
SaveFaults == {"none", "open", "write"}

\* save as a slip would have it: no try around the write.
save_unprotected(d, attr, file, io) ==
    IF attr # "dict" THEN [file |-> file, raised |-> FALSE, log |-> "none"]
    ELSE IF io = "open" THEN [file |-> file, raised |-> TRUE, log |-> "none"]
    ELSE IF io = "write" THEN [file |-> FileOf(<<>>), raised |-> TRUE, log |-> "none"]
    ELSE [file |-> FileOf(yaml_dump(d)), raised |-> FALSE, log |-> "info"]

\* CacheStorage.save (and __del__, which calls it)
save(d, attr, file, io) ==
    IF attr # "dict" THEN [file |-> file, raised |-> FALSE, log |-> "none"]
    ELSE IF io = "open" THEN [file |-> file, raised |-> FALSE, log |-> "error"]
    ELSE IF io = "write" THEN [file |-> FileOf(<<>>), raised |-> FALSE, log |-> "error"]
    ELSE [file |-> FileOf(yaml_dump(d)), raised |-> FALSE, log |-> "info"]

\* ------------------------------------------------------------ inputs

\* The orders a parser can leave a set of names in.
Perms(S) == {p \in [1..Cardinality(S) -> S] : \A i, j \in 1..Cardinality(S) : p[i] = p[j] => i = j}

\* What the parser can generate: items with distinct names, in any order.
ItemLists(names, docs) ==
    UNION {{[i \in 1..Cardinality(S) |-> [name |-> p[i], doc |-> f[p[i]]]] :
                p \in Perms(S), f \in [S -> docs]} : S \in SUBSET names}

XmlJobs == ItemLists(Names, GenJobDocs)
XmlViews == ItemLists(ViewNames, GenViewDocs)

NoFail == [at |-> 0, errno |-> "none"]
WriteFails == {NoFail} \cup [at : 1..(2 * Cardinality(Names)), errno : {"EPIPE", "EIO"}]

\* ------------------------------------------------------------ actions

\* What an operation leaves for the claims to look at.
Obs(op, arg, st) ==
    [op |-> op, arg |-> arg, calls |-> st.calls, written |-> st.written,
     raised |-> st.raised, stopped |-> st.stopped,
     updated |-> st.updated, deleted |-> st.deleted]

Commit(op, arg, st) ==
    /\ data' = st.data
    /\ srv_jobs' = st.srv["job"]
    /\ srv_views' = st.srv["view"]
    /\ jobs' = st.memo["job"]
    /\ views' = st.memo["view"]
    /\ plugins_list' = st.plugins_list
    /\ last' = Obs(op, arg, st)
    /\ UNCHANGED <<ignore_cache, data_attr, cachefile>>

UpdateArg(xj, xv, output) ==
    [xml_jobs |-> SortByName(xj), xml_views |-> SortByName(xv), output |-> output]

\* update_job(input_fn) against the server
UpdateJob ==
    \E xj \in XmlJobs, xv \in XmlViews :
        Commit("update_job", UpdateArg(xj, xv, None),
               update_job(Session, xj, xv, None, NoFail, ignore_cache))

DeleteJob ==
    \E name \in Names :
        Commit("delete_job", [name |-> name], delete_job(Session, name))

DeleteView ==
    \E name \in Names :
        Commit("delete_view", [name |-> name], delete_view(Session, name))

DeleteOldManaged ==
    \E keep \in SUBSET Names :
        Commit("delete_old_managed", [keep |-> keep], delete_old_managed(Session, keep))

DeleteAllJobs == Commit("delete_all_jobs", [k |-> "job"], delete_all(Session, "job"))

DeleteAllViews == Commit("delete_all_views", [k |-> "view"], delete_all(Session, "view"))

GetJobs ==
    \E cache \in BOOLEAN :
        Commit("get_jobs", [cache |-> cache], get_listing(Session, "job", cache))

GetViews ==
    \E cache \in BOOLEAN :
        Commit("get_views", [cache |-> cache], get_listing(Session, "view", cache))

\* ------------------------------------------------------------ specifications

\* A session: Builder.__init__ on some server, with the records the cache
\* holds by now; nothing was saved yet (the file is written at teardown).
Start(ic, plugins) ==
    /\ data \in Dicts
    /\ data_attr = "dict"
    /\ cachefile = NoFile
    /\ srv_jobs \in [Names -> SrvJobDocs \cup {Absent}]
    /\ srv_views \in {f \in [Names -> SrvViewDocs \cup {Absent}] :
                         \A n \in Names \ ViewNames : f[n] = Absent}
    /\ jobs = NoListing
    /\ views = NoListing
    /\ plugins_list \in plugins
    /\ ignore_cache \in ic
    /\ last = Obs("init", [k |-> None], Session)

Init == Start({FALSE}, {None})

Next ==
    \/ UpdateJob
    \/ DeleteJob
    \/ DeleteView
    \/ DeleteOldManaged
    \/ DeleteAllJobs
    \/ DeleteAllViews
    \/ GetJobs
    \/ GetViews

Spec == Init /\ [][Next]_vars

\* ------------------------------------------------------------ the cache alone

\* A call of a CacheStorage method; what is not the cache stays as it is.
CacheCall(obs, d) ==
    /\ data' = d
    /\ last' = obs
    /\ UNCHANGED <<data_attr, cachefile, srv_jobs, srv_views, jobs, views, plugins_list,
                   ignore_cache>>

\* The names set in this cache so far.
Seen == IF last.op = "init" THEN DOMAIN data ELSE last.seen

CacheSet ==
    \E job \in Names, h \in Hashes :
        CacheCall([op |-> "set", job |-> job, md5 |-> h, ret |-> FALSE,
                   seen |-> Seen \cup {job}],
                  set(data, job, h))

CacheIsCached ==
    \E job \in Names :
        CacheCall([op |-> "is_cached", job |-> job, md5 |-> <<>>,
                   ret |-> is_cached(data, job), seen |-> Seen],
                  data)

CacheHasChanged ==
    \E job \in Names, h \in Hashes :
        CacheCall([op |-> "has_changed", job |-> job, md5 |-> h,
                   ret |-> has_changed(data, job, h), seen |-> Seen],
                  data)

CacheNext ==
    \/ CacheSet
    \/ CacheIsCached
    \/ CacheHasChanged

\* A CacheStorage opened on some cache file, or on none.
CacheSpec == Start({FALSE}, {None}) /\ [][CacheNext]_vars

\* ------------------------------------------------------------ the output sink

\* What the parser can generate for a run with an output: views of every name.
XmlViewsOut == ItemLists(Names, GenViewDocs)

\* A session on a server that holds a generated job, a hand-made job and a
\* generated view, with a cache that holds records of generated jobs.
OutputInit ==
    /\ Start({FALSE}, {None, "given"})
    /\ \A n \in DOMAIN data : data[n] = md5(<<"job", 1>>)
    /\ srv_jobs = [n \in Names |-> IF n = "a" THEN <<"job", 1>> ELSE HandDoc]
    /\ srv_views = [n \in Names |-> IF n = "a" THEN <<"view", 1>> ELSE Absent]

\* update_job(input_fn, output=...) into a stream or a directory; the write
\* that fails, if one does, is one of the writes the run gets to.
UpdateJobOutput ==
    \E xj \in XmlJobs, xv \in XmlViewsOut, output \in {"stream", "dir"}, wfail \in WriteFails :
        /\ wfail.at <= Len(xj) + Len(xv)
        /\ Commit("update_job", UpdateArg(xj, xv, output) @@ [wfail |-> wfail],
                  update_job(Session, xj, xv, output, wfail, ignore_cache))

OutputNext == UpdateJobOutput

OutputSpec == OutputInit /\ [][OutputNext]_vars

\* ------------------------------------------------------------ the facade alone

\* A call of a Jenkins method that returns a value to the caller.
CommitRet(op, arg, r) ==
    /\ data' = r.st.data
    /\ srv_jobs' = r.st.srv["job"]
    /\ srv_views' = r.st.srv["view"]
    /\ jobs' = r.st.memo["job"]
    /\ views' = r.st.memo["view"]
    /\ plugins_list' = r.st.plugins_list
    /\ last' = Obs(op, arg, r.st) @@ [ret |-> r.res]
    /\ UNCHANGED <<ignore_cache, data_attr, cachefile>>

JenkinsUpdateJob ==
    \E name \in Names, doc \in GenJobDocs :
        Commit("Jenkins.update_job", [k |-> "job", name |-> name, xml |-> doc],
               jenkins_update(Session, "job", name, doc))

JenkinsUpdateView ==
    \E name \in Names, doc \in GenViewDocs :
        Commit("Jenkins.update_view", [k |-> "view", name |-> name, xml |-> doc],
               jenkins_update(Session, "view", name, doc))

JenkinsDeleteJob ==
    \E name \in Names :
        Commit("Jenkins.delete_job", [k |-> "job", name |-> name],
               jenkins_delete(Session, "job", name))

JenkinsDeleteView ==
    \E name \in Names :
        Commit("Jenkins.delete_view", [k |-> "view", name |-> name],
               jenkins_delete(Session, "view", name))

JenkinsIsJob ==
    \E name \in Names :
        CommitRet("Jenkins.is_job", [k |-> "job", name |-> name], is_job(Session, name))

JenkinsIsView ==
    \E name \in Names :
        CommitRet("Jenkins.is_view", [k |-> "view", name |-> name], is_view(Session, name))

\* A Jenkins object on some server, before any call.
FacadeInit == Start({FALSE}, {None}) /\ data = EmptyDict

FacadeNext ==
    \/ JenkinsUpdateJob
    \/ JenkinsUpdateView
    \/ JenkinsDeleteJob
    \/ JenkinsDeleteView
    \/ JenkinsIsJob
    \/ JenkinsIsView
    \/ GetJobs
    \/ GetViews

FacadeSpec == FacadeInit /\ [][FacadeNext]_vars

\* ------------------------------------------------------------ the marker check

IsManaged ==
    \E name \in Names :
        CommitRet("is_managed", [name |-> name], is_managed(Session, name))

\* A session on a server whose jobs hold any of the documents.
ManagedInit ==
    /\ data = EmptyDict
    /\ data_attr = "dict"
    /\ cachefile = NoFile
    /\ srv_jobs \in [Names -> LiveDocs \cup {Absent}]
    /\ srv_views = [n \in Names |-> Absent]
    /\ jobs = NoListing
    /\ views = NoListing
    /\ plugins_list = None
    /\ ignore_cache = FALSE
    /\ last = Obs("init", [k |-> None], Session)

ManagedNext ==
    \/ IsManaged
    \/ DeleteOldManaged

ManagedSpec == ManagedInit /\ [][ManagedNext]_vars

\* ------------------------------------------------------------ the cache and its file

\* A step of a CacheStorage instance; the server and the facade stay as
\* they are.
StoreCall(obs, d, attr, file) ==
    /\ data' = d
    /\ data_attr' = attr
    /\ cachefile' = file
    /\ last' = obs
    /\ UNCHANGED <<srv_jobs, srv_views, jobs, views, plugins_list, ignore_cache>>

\* CacheStorage(jenkins_url, flush) in a new process.
StoreOpen ==
    \E flush \in BOOLEAN, home \in BOOLEAN :
        LET r == open(cachefile, flush, home)
        IN  StoreCall([op |-> "open", arg |-> [flush |-> flush, home |-> home],
                       raised |-> r.raised, log |-> "none",
                       saved |-> (last.op = "save" /\ last.log = "info")],
                      r.data, r.attr, cachefile)

\* set(job, md5) on the instance; on data that is None the item assignment
\* raises TypeError.
StoreSet ==
    /\ data_attr # "unset"
    /\ \E job \in Names, h \in Hashes :
          StoreCall([op |-> "set", arg |-> [job |-> job, md5 |-> h],
                     raised |-> (data_attr = "None"), log |-> "none", saved |-> FALSE],
                    IF data_attr = "dict" THEN set(data, job, h) ELSE data,
                    data_attr, cachefile)

\* has_changed(job, md5) on the instance; on data that is None the
\* membership test raises TypeError.
StoreHasChanged ==
    /\ data_attr # "unset"
    /\ \E job \in Names, h \in Hashes :
          StoreCall([op |-> "has_changed", arg |-> [job |-> job, md5 |-> h],
                     raised |-> (data_attr = "None"), log |-> "none", saved |-> FALSE,
                     ret |-> (data_attr = "dict" /\ has_changed(data, job, h))],
                    data, data_attr, cachefile)

\* save(), called by the session or by __del__.
StoreSave ==
    \E io \in SaveFaults :
        LET r == save(data, data_attr, cachefile, io)
        IN  StoreCall([op |-> "save", arg |-> [io |-> io],
                       raised |-> r.raised, log |-> r.log, saved |-> FALSE],
                      data, data_attr, r.file)

\* Before a CacheStorage is made: some file, or none, is at the path.
StoreInit ==
    /\ data = EmptyDict
    /\ data_attr = "unset"
    /\ cachefile \in Files
    /\ srv_jobs = [n \in Names |-> Absent]
    /\ srv_views = [n \in Names |-> Absent]
    /\ jobs = NoListing
    /\ views = NoListing
    /\ plugins_list = None
    /\ ignore_cache = FALSE
    /\ last = [op |-> "init", arg |-> [k |-> None], raised |-> FALSE, log |-> "none",
               saved |-> FALSE]

StoreNext ==
    \/ StoreOpen
    \/ StoreSet
    \/ StoreHasChanged
    \/ StoreSave

StoreSpec == StoreInit /\ [][StoreNext]_vars

\* ------------------------------------------------------------ the cache file's path

\* Server URLs, as sequences of characters: a letter, and three of the
\* characters a URL holds besides letters and digits.
MaxUrlLen == 2
UrlChars == {"h", "-", ".", ":"}
Urls == UNION {[1..n -> UrlChars] : n \in 1..MaxUrlLen}

\* The character class [A-Za-z0-9\-\~] of the substitution.
KeptChars == {"h", "-", "~"}

\* re.sub('[^A-Za-z0-9\-\~]', '_', jenkins_url)
host_vary(url) == [i \in 1..Len(url) |-> IF url[i] \in KeptChars THEN url[i] ELSE "_"]

\* os.path.join(cache_dir, 'cache-host-jobs-' + host_vary + '.yml')
cachefilename(url) == <<"cache_dir", "/", "cache-host-jobs-">> \o host_vary(url) \o <<".yml">>

\* Two CacheStorage objects are made, each for its server.
TwoCaches ==
    /\ last.op = "urls"
    /\ last' = [op |-> "cachefilename", arg |-> last.arg,
                ret |-> <<cachefilename(last.arg[1]), cachefilename(last.arg[2])>>]
    /\ UNCHANGED <<data, data_attr, cachefile, srv_jobs, srv_views, jobs, views,
                   plugins_list, ignore_cache>>

\* The URLs of two servers, before a cache is made for either.
PathInit ==
    /\ data = EmptyDict
    /\ data_attr = "unset"
    /\ cachefile = NoFile
    /\ srv_jobs = [n \in Names |-> Absent]
    /\ srv_views = [n \in Names |-> Absent]
    /\ jobs = NoListing
    /\ views = NoListing
    /\ plugins_list = None
    /\ ignore_cache = FALSE
    /\ \E url1 \in Urls, url2 \in Urls :
          last = [op |-> "urls", arg |-> <<url1, url2>>, ret |-> <<>>]

PathNext == TwoCaches

PathSpec == PathInit /\ [][PathNext]_vars

\* ------------------------------------------------------------ a failing server

\* update_job(input_fn) against a server that fails one of the create or
\* reconfigure calls of the run (when the run gets to that many).
UpdateJobFailing ==
    /\ last.op = "init"
    /\ \E xj \in XmlJobs, xv \in XmlViewsOut, ufail \in 1..(2 * Cardinality(Names)) :
          /\ ufail <= Len(xj) + Len(xv)
          /\ Commit("update_job", UpdateArg(xj, xv, None) @@ [ufail |-> ufail],
                    update_job([Session EXCEPT !.ufail = ufail], xj, xv, None, NoFail,
                               ignore_cache))

\* The run that raised is run again, in a new process (nothing is
\* memoized), on the cache the failed run left, with the same input.
Rerun ==
    /\ last.op = "update_job"
    /\ last.raised
    /\ Commit("rerun", last.arg,
              update_job([Session EXCEPT !.memo = [job |-> NoListing, view |-> NoListing]],
                         last.arg.xml_jobs, last.arg.xml_views, None, NoFail, ignore_cache))

\* A session on some server, jobs and views of every name, with some cache.
FailInit ==
    /\ data \in Dicts
    /\ data_attr = "dict"
    /\ cachefile = NoFile
    /\ srv_jobs \in [Names -> SrvJobDocs \cup {Absent}]
    /\ srv_views \in [Names -> SrvViewDocs \cup {Absent}]
    /\ jobs = NoListing
    /\ views = NoListing
    /\ plugins_list = None
    /\ ignore_cache = FALSE
    /\ last = Obs("init", [k |-> None], Session)

FailNext ==
    \/ UpdateJobFailing
    \/ Rerun

FailSpec == FailInit /\ [][FailNext]_vars

\* ------------------------------------------------------------ from an empty cache

\* A session that starts with no record, on a server nobody else changes.
FreshInit == Start({FALSE}, {None}) /\ data = EmptyDict

FreshNext ==
    \/ UpdateJob
    \/ DeleteJob
    \/ DeleteView
    \/ DeleteOldManaged
    \/ DeleteAllJobs
    \/ DeleteAllViews

FreshSpec == FreshInit /\ [][FreshNext]_vars

\* ------------------------------------------------------------ with and without the force flag

\* The first update_job(input_fn) of a session.
UpdateJobFirst ==
    /\ last.op = "init"
    /\ \E xj \in XmlJobs, xv \in XmlViewsOut :
          Commit("update_job", UpdateArg(xj, xv, None) @@ [run |-> 1],
                 update_job(Session, xj, xv, None, NoFail, ignore_cache))

\* update_job(input_fn) once more in the session, on the same input.
UpdateJobAgain ==
    /\ last.op = "update_job"
    /\ last.arg.run = 1
    /\ Commit("update_job", [last.arg EXCEPT !.run = 2],
              update_job(Session, last.arg.xml_jobs, last.arg.xml_views, None, NoFail,
                         ignore_cache))

\* A session on some server, jobs and views of every name, with some cache,
\* ignore_cache set or not.
ForceInit ==
    /\ data \in Dicts
    /\ data_attr = "dict"
    /\ cachefile = NoFile
    /\ srv_jobs \in [Names -> SrvJobDocs \cup {Absent}]
    /\ srv_views \in [Names -> SrvViewDocs \cup {Absent}]
    /\ jobs = NoListing
    /\ views = NoListing
    /\ plugins_list = None
    /\ ignore_cache \in BOOLEAN
    /\ last = Obs("init", [k |-> None], Session)

ForceNext ==
    \/ UpdateJobFirst
    \/ UpdateJobAgain

ForceSpec == ForceInit /\ [][ForceNext]_vars

\* ------------------------------------------------------------ claims

\* The positions of the create and reconfigure calls among the calls.
Upserts(calls) ==
    {i \in 1..Len(calls) :
        calls[i].call \in {"create_job", "reconfig_job", "create_view", "reconfig_view"}}

\* The names a call was issued for.
NamesOf(calls, c) == {calls[i].name : i \in {j \in 1..Len(calls) : calls[j].call = c}}

\* The document carries the marker at the end of its description.
Managed(doc) == EndsWith(Description(doc), MAGIC_MANAGE_STRING)

\* The jobs on the server that delete_old_managed(keep) has to delete.
Obsolete(srv, keep) == {n \in Names : srv[n] # Absent /\ n \notin keep /\ Managed(srv[n])}

\* C1: with ignore_cache unset and no output, an update_job that follows an
\* update_job of the same jobs and views, which returned normally, issues no
\* create and no reconfigure call.
C1_SecondRunIssuesNoUpsert ==
    [][(/\ last.op = "update_job" /\ ~last.raised
        /\ last'.op = "update_job" /\ last'.arg = last.arg
        /\ last.arg.output = None /\ ~ignore_cache)
       => Upserts(last'.calls) = {}]_vars

\* C2: delete_old_managed(keep) deletes only jobs that are on the server, not
\* in keep and managed; when it returns it has deleted every such job, and
\* the count it returns is the number of jobs it deleted.
C2_DeletesExactlyObsoleteManaged ==
    [][last'.op = "delete_old_managed"
       => /\ NamesOf(last'.calls, "delete_job") \subseteq Obsolete(srv_jobs, last'.arg.keep)
          /\ ~last'.raised =>
                /\ NamesOf(last'.calls, "delete_job") = Obsolete(srv_jobs, last'.arg.keep)
                /\ last'.deleted = Cardinality(Obsolete(srv_jobs, last'.arg.keep))]_vars

\* C3: delete_old_managed fetches the job listing anew: the listing it goes
\* through is the set of jobs the server holds when it is called.
C3_FreshListing ==
    [][last'.op = "delete_old_managed"
       => jobs' = <<{n \in Names : srv_jobs[n] # Absent}>>]_vars

\* C4: has_changed(name, hash) is false exactly when the cache holds a record
\* for name that equals hash, and true otherwise; it is true for every hash
\* when name was never set in this cache.
C4_HasChanged ==
    last.op = "has_changed"
    => /\ last.ret = (last.job \notin DOMAIN data \/ data[last.job] # last.md5)
       /\ last.job \notin last.seen => last.ret

\* has_changed was asked about a name that was never set, and said TRUE.
C4_Witness ==
    /\ last.op = "has_changed" /\ last.job \notin last.seen /\ last.ret
    /\ DOMAIN data # {}

\* C5: right after set(name, hash), has_changed(name, hash) is false and
\* has_changed(name, hash2) is true for every other hash2, whatever was set
\* before; the records of the other names are as they were.
C5_SetThenHasChanged ==
    [][last'.op = "set"
       => /\ ~has_changed(data', last'.job, last'.md5)
          /\ \A h2 \in Hashes \ {last'.md5} : has_changed(data', last'.job, h2)
          /\ \A m \in Names \ {last'.job} :
                /\ m \in DOMAIN data' <=> m \in DOMAIN data
                /\ m \in DOMAIN data => data'[m] = data[m]]_vars

\* A set on one name, after sets on both, has left the other name's record.
C5_Witness ==
    /\ last.op = "set" /\ last.seen = Names
    /\ \E m \in Names \ {last.job} : m \in DOMAIN data /\ data[m] # data[last.job]

\* The last operation was an update_job with an output.
OutputRun == last.op = "update_job" /\ last.arg.output # None
OutputRun1 == last'.op = "update_job" /\ last'.arg.output # None

\* What was written, as the names of one kind in the order of the writes.
WrittenOf(k) == SelectSeq(last.written, LAMBDA w : w.kind = k)

\* The entities update_job was given, jobs first, each kind in name order.
Tagged(items, k) == [i \in 1..Len(items) |-> [kind |-> k, name |-> items[i].name]]
InPassOrder == Tagged(last.arg.xml_jobs, "job") \o Tagged(last.arg.xml_views, "view")

\* C6: update_job with an output makes no call to the server: no listing,
\* existence, config-fetch, plugin-info, create, reconfigure or delete call.
C6_NoRemoteCall == OutputRun => last.calls = <<>>

\* C7: update_job with an output leaves every cache record, and every absence
\* of a record, as it was.
C7_OutputLeavesCache == [][OutputRun1 => data' = data]_vars

\* A run with an output wrote an entity that has no cache record, into a
\* cache that holds records.
C7_Witness ==
    /\ OutputRun /\ data # EmptyDict
    /\ \E i \in 1..Len(last.written) : last.written[i].name \notin DOMAIN data

\* C8 as stated: on a stream, of any two entities written, jobs and views
\* together, the one with the smaller name is written first.
C8_StreamInNameOrder ==
    (OutputRun /\ last.arg.output = "stream")
    => \A i, j \in 1..Len(last.written) :
          i < j => NameOrd(last.written[i].name) <= NameOrd(last.written[j].name)

\* C8, amended: on a stream the jobs are written first, in ascending name
\* order, and the views after them, in ascending name order; when no write
\* fails every job and view given is written.
C8_StreamJobsThenViews ==
    (OutputRun /\ last.arg.output = "stream")
    => /\ \A i, j \in 1..Len(last.written) :
            i < j => /\ ~(last.written[i].kind = "view" /\ last.written[j].kind = "job")
                     /\ last.written[i].kind = last.written[j].kind
                        => NameOrd(last.written[i].name) < NameOrd(last.written[j].name)
       /\ last.arg.wfail = NoFail
          => \A k \in {"job", "view"} :
                {w.name : w \in {last.written[i] : i \in {j \in 1..Len(last.written) : last.written[j].kind = k}}}
                = {it.name : it \in {(IF k = "job" THEN last.arg.xml_jobs ELSE last.arg.xml_views)[i] :
                                        i \in 1..Len(IF k = "job" THEN last.arg.xml_jobs ELSE last.arg.xml_views)}}

\* A stream received two jobs and then two views.
C8_Witness ==
    /\ OutputRun /\ last.arg.output = "stream"
    /\ Len(WrittenOf("job")) = 2 /\ Len(WrittenOf("view")) = 2

\* C9: on a stream, a write that fails with EPIPE ends update_job without an
\* exception, and a write that fails with another error raises; either way
\* what was written is what came before the failing write, and no job or
\* view after it.
C9_BrokenPipeStops ==
    (OutputRun /\ last.arg.output = "stream" /\ last.arg.wfail.at > 0)
    => /\ last.written = SubSeq(InPassOrder, 1, last.arg.wfail.at - 1)
       /\ last.arg.wfail.errno = "EPIPE" => ~last.raised /\ last.stopped
       /\ last.arg.wfail.errno # "EPIPE" => last.raised

\* The write of the second job broke the pipe, with views still to write.
C9_Witness ==
    /\ OutputRun /\ last.arg.output = "stream"
    /\ last.arg.wfail = [at |-> 2, errno |-> "EPIPE"]
    /\ Len(last.arg.xml_jobs) = 2 /\ Len(last.arg.xml_views) > 0
    /\ Len(last.written) = 1 /\ last.stopped

\* The name is among the items.
Among(name, items) == \E i \in 1..Len(items) : items[i].name = name

\* C10: when delete_job(name) or delete_view(name) returns, a record that
\* name had is the empty string, has_changed(name, h) is true for every
\* digest h, no record was made for a name that had none, and the other
\* names' records are as they were; an update_job that finds the empty
\* record creates or reconfigures the entity.
C10_DeleteInvalidates ==
    [][/\ (last'.op \in {"delete_job", "delete_view"} /\ ~last'.raised)
          => /\ last'.arg.name \in DOMAIN data
                => /\ data'[last'.arg.name] = <<>>
                   /\ \A h \in Digests : has_changed(data', last'.arg.name, h)
             /\ last'.arg.name \notin DOMAIN data => last'.arg.name \notin DOMAIN data'
             /\ \A m \in Names \ {last'.arg.name} :
                   /\ m \in DOMAIN data' <=> m \in DOMAIN data
                   /\ m \in DOMAIN data => data'[m] = data[m]
       /\ (last'.op = "update_job" /\ ~last'.raised /\ last'.arg.output = None)
          => \A n \in DOMAIN data :
                data[n] = <<>>
                => /\ Among(n, last'.arg.xml_jobs)
                      => n \in NamesOf(last'.calls, "create_job") \cup NamesOf(last'.calls, "reconfig_job")
                   /\ Among(n, last'.arg.xml_views)
                      => n \in NamesOf(last'.calls, "create_view") \cup NamesOf(last'.calls, "reconfig_view")]_vars

\* delete_job deleted a job on the server and left the empty record for it.
C10_Witness ==
    /\ last.op = "delete_job" /\ ~last.raised
    /\ last.arg.name \in NamesOf(last.calls, "delete_job")
    /\ last.arg.name \in DOMAIN data /\ data[last.arg.name] = <<>>

\* The listing of one kind the facade holds, and the names the server holds.
MemoOf(k) == IF k = "job" THEN jobs ELSE views
SrvOf(k) == IF k = "job" THEN srv_jobs ELSE srv_views
Present(srv) == {n \in Names : srv[n] # Absent}
ListCall(k) == IF k = "job" THEN "get_jobs" ELSE "get_views"

\* C11: once the listing of jobs (of views) is memoized, every call of
\* update_job, update_view, delete_job, delete_view, is_job, is_view and
\* get_jobs / get_views with cache=True leaves it as it is and asks the
\* server for no listing, whatever the call changes on the server; a call of
\* get_jobs(cache=False) / get_views(cache=False) asks the server for the
\* listing and memoizes the names the server holds at that time.
C11_ListingMemoized ==
    [][/\ \A k \in {"job", "view"} :
            (MemoOf(k) # NoListing /\ ~(last'.op = ListCall(k) /\ ~last'.arg.cache))
            => /\ MemoOf(k)' = MemoOf(k)
               /\ ListCall(k) \notin {last'.calls[i].call : i \in 1..Len(last'.calls)}
       /\ (last'.op = "get_jobs" /\ ~last'.arg.cache)
            => /\ jobs' = <<Present(srv_jobs)>>
               /\ last'.calls = <<[call |-> "get_jobs", name |-> ""]>>
       /\ (last'.op = "get_views" /\ ~last'.arg.cache)
            => /\ views' = <<Present(srv_views)>>
               /\ last'.calls = <<[call |-> "get_views", name |-> ""]>>]_vars

\* A mutation went through while a listing was memoized, and the listing no
\* longer tells what the server holds.
C11_Witness ==
    /\ last.op \in {"Jenkins.update_job", "Jenkins.delete_job"}
    /\ ~last.raised
    /\ jobs # NoListing
    /\ jobs[1] # Present(srv_jobs)
    /\ "get_jobs" \notin {last.calls[i].call : i \in 1..Len(last.calls)}

\* The calls that change the server, among the calls.
Mutations(calls) ==
    SelectSeq(calls, LAMBDA c : c.call \in {"create_job", "reconfig_job", "delete_job",
                                            "create_view", "reconfig_view", "delete_view"})

\* The listing is_job / is_view looks the name up in: the memoized one, or
\* the one it fetches when none is.
LookedUp(k) == IF MemoOf(k) # NoListing THEN MemoOf(k)[1] ELSE Present(SrvOf(k))

\* C12: Jenkins.update_job / update_view issue exactly one mutation:
\* reconfigure when the existence check is true, create otherwise. The
\* existence check (is_job / is_view) is true when the name is in the
\* memoized listing, without a query; otherwise it is the answer of one
\* existence query to the server.
C12_OneMutation ==
    [][/\ last'.op \in {"Jenkins.update_job", "Jenkins.update_view"}
          => LET k == last'.arg.k
                 n == last'.arg.name
                 check == n \in LookedUp(k) \/ SrvOf(k)[n] # Absent
             IN  Mutations(last'.calls) =
                    <<[call |-> CallName(k, IF check THEN "reconfig" ELSE "create"), name |-> n]>>
       /\ last'.op \in {"Jenkins.is_job", "Jenkins.is_view"}
          => LET k == last'.arg.k
                 n == last'.arg.name
                 queries == SelectSeq(last'.calls, LAMBDA c : c.call = CallName(k, "exists"))
             IN  /\ Mutations(last'.calls) = <<>>
                 /\ n \in LookedUp(k) => (last'.ret /\ queries = <<>>)
                 /\ n \notin LookedUp(k)
                    => /\ last'.ret = (SrvOf(k)[n] # Absent)
                       /\ queries = <<[call |-> CallName(k, "exists"), name |-> n]>>]_vars

\* update_job reconfigured a job on the word of the memoized listing alone:
\* the server no longer held it.
C12_Witness ==
    /\ last.op = "Jenkins.update_job"
    /\ last.calls = <<[call |-> "reconfig_job", name |-> last.arg.name]>>
    /\ last.raised
    /\ srv_jobs[last.arg.name] = Absent

\* The document is_managed was called on (the call leaves it on the server).
Checked == srv_jobs[last.arg.name]

\* C13: is_managed(name) returns true if and only if the description text
\* of the job's live XML is some text followed by the marker and nothing
\* more; a description that holds the marker followed by further text is not
\* managed.
C13_MarkerIsSuffix ==
    (last.op = "is_managed" /\ ~last.raised)
    => last.ret =
          /\ HasDescription(Checked) /\ HasText(Checked)
          /\ \E n \in 0..(Len(Description(Checked)) - 1) :
                Description(Checked) = SubSeq(Description(Checked), 1, n) \o MAGIC_MANAGE_STRING

\* is_managed answered false for a description with text behind the marker.
C13_Witness ==
    /\ last.op = "is_managed" /\ ~last.raised /\ ~last.ret
    /\ Checked = <<"desc", <<"t", "M", "t">>>>

\* C14: is_managed returns false and raises nothing when the job's live XML
\* has no description element, when its description element has no text, and
\* when it is not well-formed.
C14_ParseFailureIsFalse ==
    (last.op = "is_managed" /\ Checked \in {NoDescDoc, NoTextDoc, MalformedDoc})
    => (~last.raised /\ ~last.ret)

\* The file holds the dump of a dict, and the dict it holds.
Persists(file) == file.exists /\ \E d \in Dicts : file.text = yaml_dump(d)
Persisted(file) == CHOOSE d \in Dicts : file.text = yaml_dump(d)

\* C15: opening the cache raises nothing and gives a dict; the dict is
\* empty when flush is set, when there is no cache file and when the file is
\* empty, corrupt or otherwise fails to parse; it is the persisted dict
\* otherwise. (The home folder is found.)
C15_OpenNeverFails ==
    [][(last'.op = "open" /\ last'.arg.home)
       => /\ ~last'.raised
          /\ data_attr' = "dict"
          /\ data' = IF last'.arg.flush \/ ~Persists(cachefile) THEN EmptyDict
                     ELSE Persisted(cachefile)]_vars

\* C16: save raises nothing and leaves the data of the instance as it is;
\* when opening or writing the file fails it logs an error and returns; on an
\* instance without data (the constructor did not get to the assignment, or
\* data is None) it writes nothing and logs nothing.
C16_SaveNeverRaises ==
    [][last'.op = "save"
       => /\ ~last'.raised
          /\ data' = data
          /\ data_attr' = data_attr
          /\ data_attr # "dict" => (cachefile' = cachefile /\ last'.log = "none")
          /\ (data_attr = "dict" /\ last'.arg.io # "none") => last'.log = "error"
          /\ (data_attr = "dict" /\ last'.arg.io = "none")
             => (cachefile' = FileOf(yaml_dump(data)) /\ last'.log = "info")]_vars

\* save failed while writing records, and returned.
C16_Witness ==
    /\ last.op = "save" /\ last.arg.io = "write" /\ last.log = "error" /\ ~last.raised
    /\ data_attr = "dict" /\ DOMAIN data = Names

\* C17: for every dict of names to hashes (the empty dict and the records
\* that hold the empty string among them), opening the cache with
\* flush=False right after a save that succeeded gives a dict equal to the
\* one saved.
C17_RoundTrip ==
    [][(/\ last.op = "save" /\ last.log = "info"
        /\ last'.op = "open" /\ ~last'.arg.flush /\ last'.arg.home)
       => (~last'.raised /\ data_attr' = "dict" /\ data' = data)]_vars

\* A dict with an empty record and a digest was saved and opened again.
C17_Witness ==
    /\ last.op = "open" /\ ~last.arg.flush /\ last.saved /\ ~last.raised
    /\ \E n, m \in DOMAIN data : data[n] = <<>> /\ data[m] # <<>>

\* C18: the cache files of two different server URLs are at different
\* paths.
C18_DistinctPaths ==
    (last.op = "cachefilename" /\ last.arg[1] # last.arg[2])
    => last.ret[1] # last.ret[2]

\* The entities of the run last' tells of, in the order the run takes them,
\* and the entity a create or reconfigure call is for.
PassOrder1 == Tagged(last'.arg.xml_jobs, "job") \o Tagged(last'.arg.xml_views, "view")
EntityOf(c) ==
    [kind |-> IF c.call \in {"create_job", "reconfig_job"} THEN "job" ELSE "view",
     name |-> c.name]
\* The hash of what the run generated for an entity.
LocalHash(arg, e) ==
    LET items == IF e.kind = "job" THEN arg.xml_jobs ELSE arg.xml_views
    IN  md5(items[CHOOSE i \in 1..Len(items) : items[i].name = e.name].doc)
\* The entities the calls at some positions are for.
EntitiesAt(calls, S) == {EntityOf(calls[i]) : i \in S}

\* C19: when a create or reconfigure call fails during update_job, the run
\* raises and the failing call is its last. The cache then holds the local
\* hash of every entity created or reconfigured before the failure, does not
\* hold the local hash of the entity whose call failed, and holds what it
\* held before the run for every name the run did not get to; the same run
\* in a new process, on that cache, creates or reconfigures the entity that
\* failed and none of those done before the failure.
C19_FailureLeavesCacheResumable ==
    [][/\ (last'.op = "update_job" /\ last'.raised)
          => LET calls == last'.calls
                 failed == EntityOf(calls[Len(calls)])
                 done == EntitiesAt(calls, Upserts(calls) \ {Len(calls)})
                 at == CHOOSE i \in 1..Len(PassOrder1) : PassOrder1[i] = failed
             IN  /\ Len(calls) \in Upserts(calls)
                 /\ Cardinality(Upserts(calls)) = last'.arg.ufail
                 /\ \A e \in done :
                       e.name \in DOMAIN data' /\ data'[e.name] = LocalHash(last'.arg, e)
                 /\ ~(failed.name \in DOMAIN data'
                      /\ data'[failed.name] = LocalHash(last'.arg, failed))
                 /\ \A n \in Names \ {PassOrder1[i].name : i \in 1..at} :
                       /\ n \in DOMAIN data' <=> n \in DOMAIN data
                       /\ n \in DOMAIN data => data'[n] = data[n]
       /\ (last'.op = "rerun" /\ ~last'.raised)
          => LET failed == EntityOf(last.calls[Len(last.calls)])
                 done == EntitiesAt(last.calls, Upserts(last.calls) \ {Len(last.calls)})
                 again == EntitiesAt(last'.calls, Upserts(last'.calls))
             IN  /\ failed \in again
                 /\ done \cap again = {}]_vars

\* C20: in a session that starts with an empty cache, on a server nobody
\* else changes, after any sequence of update_job, delete_job, delete_view,
\* delete_old_managed, delete_all_jobs and delete_all_views calls, every
\* record that is there and not empty is the md5 of the XML last pushed to,
\* or read from, the server under that name: of the job or of the view the
\* server holds under it, and after an update_job the md5 of what the run
\* pushed last under the name.
C20_RecordsMatchServer ==
    /\ \A n \in DOMAIN data :
          data[n] # <<>>
          => \/ srv_jobs[n] # Absent /\ data[n] = md5(srv_jobs[n])
             \/ srv_views[n] # Absent /\ data[n] = md5(srv_views[n])
    /\ last.op = "update_job"
       => LET pushed == {i \in Upserts(last.calls) : i < Len(last.calls) \/ ~last.raised}
          IN  \A i \in pushed :
                 (\A j \in pushed : last.calls[j].name = last.calls[i].name => j <= i)
                 => /\ last.calls[i].name \in DOMAIN data
                    /\ data[last.calls[i].name] = LocalHash(last.arg, EntityOf(last.calls[i]))

\* update_job created a job and recorded its hash, next to the empty record
\* a delete left.
C20_Witness ==
    /\ last.op = "update_job" /\ ~last.raised
    /\ \E n \in NamesOf(last.calls, "create_job") :
          n \in DOMAIN data /\ data[n] = md5(srv_jobs[n])
    /\ \E m \in DOMAIN data : data[m] = <<>>

\* The create and reconfigure calls for jobs, among the calls.
JobUpserts(calls) == SelectSeq(calls, LAMBDA c : c.call \in {"create_job", "reconfig_job"})

\* C21: jobs and views are reconciled independently, a job and a view of
\* one name included: the create and reconfigure calls an update_job issues
\* for the jobs, and the record each job ends the run with, are those of the
\* same run without the views; and delete_view(name) leaves the record of a
\* job of that name as it is.
C21_JobsAndViewsIndependent ==
    [][/\ (last'.op = "update_job" /\ last'.arg.output = None /\ ~last'.raised)
          => LET alone == update_job(Session, last'.arg.xml_jobs, <<>>, None, NoFail,
                                     ignore_cache)
             IN  /\ JobUpserts(last'.calls) = JobUpserts(alone.calls)
                 /\ \A i \in 1..Len(last'.arg.xml_jobs) :
                       LET n == last'.arg.xml_jobs[i].name
                       IN  /\ n \in DOMAIN data' <=> n \in DOMAIN alone.data
                           /\ n \in DOMAIN data' => data'[n] = alone.data[n]
       /\ (last'.op = "delete_view" /\ ~last'.raised
           /\ srv_jobs[last'.arg.name] # Absent /\ last'.arg.name \in DOMAIN data)
          => data'[last'.arg.name] = data[last'.arg.name]]_vars

\* The run last' tells of, cut after its first i entities: what update_job
\* does from the state before the run when the input ends there.
After(i) ==
    LET xj == last'.arg.xml_jobs
        xv == last'.arg.xml_views
    IN  update_job(Session,
                   SubSeq(xj, 1, IF i < Len(xj) THEN i ELSE Len(xj)),
                   SubSeq(xv, 1, IF i < Len(xj) THEN 0 ELSE i - Len(xj)),
                   None, NoFail, ignore_cache)
\* The calls a run issues for one entity, given the run before and after it.
StepCalls(pre, post) == SubSeq(post.calls, Len(pre.calls) + 1, Len(post.calls))
\* Among them is the fetch of the entity's live XML, to seed the cache.
Fetched(new, e) ==
    \E j \in 1..Len(new) : new[j] = [call |-> CallName(e.kind, "config"), name |-> e.name]
\* The cache the change decision on the entity is taken against.
Seeded(pre, new, e) ==
    IF Fetched(new, e)
    THEN set(pre.data, e.name, md5(pre.srv[e.kind][e.name]))
    ELSE pre.data

\* C22: update_job without an output issues one create or reconfigure call
\* for an entity when has_changed(name, local hash) holds after the seeding
\* step or ignore_cache is set, and none otherwise; with ignore_cache set a
\* run that returns has upserted every entity it was given; when the call
\* returned the record of the name is the local hash, and when none was
\* issued the cache is as the seeding step left it; the counts the run
\* returns are the numbers of such calls for jobs and for views.
C22_UpsertIffChangedOrForced ==
    [][last'.op = "update_job"
       => /\ \A whole \in {After(Len(PassOrder1))} :
                whole.calls = last'.calls /\ whole.data = data'
          /\ \A i \in 1..Len(PassOrder1) :
             \A e \in {PassOrder1[i]}, pre \in {After(i - 1)}, post \in {After(i)} :
             \A h \in {LocalHash(last'.arg, e)}, new \in {StepCalls(pre, post)} :
             \A ups \in {Upserts(new)}, seeded \in {Seeded(pre, new, e)} :
                (~pre.raised /\ ~(post.raised /\ ups = {}))
                => /\ Cardinality(ups) =
                         IF has_changed(seeded, e.name, h) \/ ignore_cache THEN 1 ELSE 0
                   /\ \A j \in ups : EntityOf(new[j]) = e
                   /\ (ups # {} /\ ~post.raised)
                      => (e.name \in DOMAIN post.data /\ post.data[e.name] = h)
                   /\ ups = {} => post.data = seeded
          /\ (ignore_cache /\ ~last'.raised)
             => /\ Cardinality(Upserts(last'.calls)) = Len(PassOrder1)
                /\ EntitiesAt(last'.calls, Upserts(last'.calls))
                   = {PassOrder1[i] : i \in 1..Len(PassOrder1)}
          /\ ~last'.raised
             => /\ last'.updated["job"] = Len(JobUpserts(last'.calls))
                /\ last'.updated["view"]
                   = Cardinality(Upserts(last'.calls)) - Len(JobUpserts(last'.calls))]_vars

\* With ignore_cache set, the second run on the same input upserted a job
\* and a view again, their records being their local hashes already.
C22_Witness ==
    /\ last.op = "update_job" /\ last.arg.run = 2 /\ ~last.raised /\ ignore_cache
    /\ last.updated["job"] > 0 /\ last.updated["view"] > 0

\* The fetches of live XML among the calls.
ConfigFetches(new) == SelectSeq(new, LAMBDA c : c.call \in {"get_job_config", "get_view_config"})
UpsertCalls(new) ==
    SelectSeq(new, LAMBDA c : c.call \in {"create_job", "reconfig_job",
                                          "create_view", "reconfig_view"})

\* C23, as stated: when an entity update_job is given exists on the server
\* and has no record, its live XML is fetched once and the decision is taken
\* against the md5 of it: the entity is skipped when that md5 is the local
\* hash, and reconfigured when it is not; when the name has a record (the
\* empty string included) nothing is fetched and the decision is taken
\* against that record.
C23_SeedingDecides ==
    [][last'.op = "update_job"
       => \A i \in 1..Len(PassOrder1) :
          \A e \in {PassOrder1[i]}, pre \in {After(i - 1)}, post \in {After(i)} :
          \A h \in {LocalHash(last'.arg, e)}, new \in {StepCalls(pre, post)} :
             (~pre.raised /\ pre.srv[e.kind][e.name] # Absent)
             => /\ e.name \notin DOMAIN pre.data
                   => /\ ConfigFetches(new)
                         = <<[call |-> CallName(e.kind, "config"), name |-> e.name]>>
                      /\ md5(pre.srv[e.kind][e.name]) = h
                         => (UpsertCalls(new) = <<>> /\ post.data[e.name] = h)
                      /\ md5(pre.srv[e.kind][e.name]) # h
                         => /\ UpsertCalls(new)
                               = <<[call |-> CallName(e.kind, "reconfig"), name |-> e.name]>>
                            /\ post.data[e.name] = h
                /\ e.name \in DOMAIN pre.data
                   => /\ ConfigFetches(new) = <<>>
                      /\ UpsertCalls(new) # <<>>
                         <=> (has_changed(pre.data, e.name, h) \/ ignore_cache)]_vars

\* C23, amended: the same, but the seeded entity whose live md5 is the local
\* hash is skipped when ignore_cache is unset; with ignore_cache set it is
\* reconfigured like the one whose live md5 differs.
C23_SeedingDecidesUnforced ==
    [][last'.op = "update_job"
       => \A i \in 1..Len(PassOrder1) :
          \A e \in {PassOrder1[i]}, pre \in {After(i - 1)}, post \in {After(i)} :
          \A h \in {LocalHash(last'.arg, e)}, new \in {StepCalls(pre, post)} :
             (~pre.raised /\ pre.srv[e.kind][e.name] # Absent)
             => /\ e.name \notin DOMAIN pre.data
                   => /\ ConfigFetches(new)
                         = <<[call |-> CallName(e.kind, "config"), name |-> e.name]>>
                      /\ (md5(pre.srv[e.kind][e.name]) = h /\ ~ignore_cache)
                         => (UpsertCalls(new) = <<>> /\ post.data[e.name] = h)
                      /\ (md5(pre.srv[e.kind][e.name]) # h \/ ignore_cache)
                         => /\ UpsertCalls(new)
                               = <<[call |-> CallName(e.kind, "reconfig"), name |-> e.name]>>
                            /\ post.data[e.name] = h
                /\ e.name \in DOMAIN pre.data
                   => /\ ConfigFetches(new) = <<>>
                      /\ UpsertCalls(new) # <<>>
                         <=> (has_changed(pre.data, e.name, h) \/ ignore_cache)]_vars

\* A run seeded the records of two jobs from the server, skipped the one
\* whose live XML was what it generated and reconfigured the other.
C23_Witness ==
    /\ last.op = "update_job" /\ last.arg.run = 1 /\ ~last.raised /\ ~ignore_cache
    /\ NamesOf(last.calls, "get_job_config") = Names
    /\ NamesOf(last.calls, "reconfig_job") = {"b"}
    /\ NamesOf(last.calls, "create_job") = {}

\* No name of the run last' tells of is the name of a job and of a view.
DistinctNames1 ==
    \A i \in 1..Len(last'.arg.xml_jobs), j \in 1..Len(last'.arg.xml_views) :
        last'.arg.xml_jobs[i].name # last'.arg.xml_views[j].name

\* C26: when update_job without an output returns normally and no name it
\* was given is the name of a job and of a view, the record of every entity
\* it was given is the entity's local hash, upserted or skipped, whatever
\* the cache and the server held before.
C26_RecordsAreLocalHashes ==
    [][(last'.op = "update_job" /\ ~last'.raised /\ DistinctNames1)
       => \A i \in 1..Len(PassOrder1) :
             /\ PassOrder1[i].name \in DOMAIN data'
             /\ data'[PassOrder1[i].name] = LocalHash(last'.arg, PassOrder1[i])]_vars

\* A run on a job and a view of different names upserted one and skipped
\* the other.
C26_Witness ==
    /\ last.op = "update_job" /\ ~last.raised
    /\ Len(last.arg.xml_jobs) = 1 /\ Len(last.arg.xml_views) = 1
    /\ last.arg.xml_jobs[1].name # last.arg.xml_views[1].name
    /\ last.updated["job"] + last.updated["view"] = 1
    /\ data[last.arg.xml_jobs[1].name] = md5(last.arg.xml_jobs[1].doc)
    /\ data[last.arg.xml_views[1].name] = md5(last.arg.xml_views[1].doc)

\* The kind of entity a delete_job / delete_view is about.
DeletedKind == IF last'.op = "delete_job" THEN "job" ELSE "view"

\* C24, as stated: every delete_job(name) and delete_view(name) issues a
\* delete call for the name to the server, whether or not the name is in the
\* memoized listing or on the server.
C24_DeleteUnconditional ==
    [][last'.op \in {"delete_job", "delete_view"}
       => [call |-> CallName(DeletedKind, "delete"), name |-> last'.arg.name]
          \in {last'.calls[i] : i \in 1..Len(last'.calls)}]_vars

\* C24, amended: delete_job(name) and delete_view(name) call the facade's
\* delete on every call, and the facade issues one delete call to the server
\* when the name is in the memoized listing or the server says it exists, and
\* none otherwise; when the call returns, a record the name had is the empty
\* string, whether a delete call was issued or not.
C24_DeleteIfExists ==
    [][last'.op \in {"delete_job", "delete_view"}
       => /\ Mutations(last'.calls) =
                IF \/ last'.arg.name \in LookedUp(DeletedKind)
                   \/ SrvOf(DeletedKind)[last'.arg.name] # Absent
                THEN <<[call |-> CallName(DeletedKind, "delete"), name |-> last'.arg.name]>>
                ELSE <<>>
          /\ (~last'.raised /\ last'.arg.name \in DOMAIN data)
             => data'[last'.arg.name] = <<>>]_vars

\* delete_job returned without a delete call: the server holds no such job;
\* the record of the name was blanked all the same.
C24_Witness ==
    /\ last.op = "delete_job" /\ ~last.raised
    /\ Mutations(last.calls) = <<>>
    /\ last.arg.name \in DOMAIN data /\ data[last.arg.name] = <<>>

\* The names of one kind the server holds just before the i-th call of the
\* operation last' tells of: those it held before the operation, with what
\* the earlier calls created and without what they deleted.
PresentBefore(k, i) ==
    (Present(SrvOf(k))
        \cup {last'.calls[j].name : j \in {x \in 1..(i - 1) :
                                             last'.calls[x].call = CallName(k, "create")}})
    \ {last'.calls[j].name : j \in {x \in 1..(i - 1) :
                                       last'.calls[x].call = CallName(k, "delete")}}

\* C25: in a session on a server nobody else changes, no reconfigure or
\* delete call is issued for a name the server does not hold at that moment,
\* and no create call for a name it holds.
C25_CallsFitTheServer ==
    [][\A i \in 1..Len(last'.calls), k \in {"job", "view"} :
          /\ last'.calls[i].call \in {CallName(k, "reconfig"), CallName(k, "delete")}
             => last'.calls[i].name \in PresentBefore(k, i)
          /\ last'.calls[i].call = CallName(k, "create")
             => last'.calls[i].name \notin PresentBefore(k, i)]_vars

====
